---- MODULE Spec2Model ----
(***************************************************************************)
(* Terminology search: the aggregator search_terms                         *)
(* (src/app/api/endpoints/search.py), the remote resolver ICD11Service     *)
(* (src/app/api/services/icd11.py) and the local resolver NAMASTEService   *)
(* (src/app/api/services/namaste.py).                                      *)
(*                                                                         *)
(* Text is a sequence of one-character strings, so that str.lower(),       *)
(* str.strip() and the substring test are computed, not assumed.           *)
(***************************************************************************)
EXTENDS Integers, Sequences, FiniteSets, TLC

\* ---------------------------------------------------------------- bounds
\* longest entity list in one remote response
MaxEnt == 2
\* longest local catalog
MaxCat == 1
\* longest entity list drawn for the normalization-only specification
MaxNormEnt == 2
\* longest catalog drawn for the local-search-only specification
MaxLocalCat == 2
\* searches that call get_token on the shared service at the same time
MaxCallers == 3

\* endpoints_to_try has four entries
NumEndpoints == 4

\* ------------------------------------------------------------------ text
\* str.lower() on one character
LowerC(c) ==
  CASE c = "A" -> "a"
    [] c = "F" -> "f"
    [] c = "E" -> "e"
    [] c = "V" -> "v"
    [] c = "Y" -> "y"
    [] OTHER -> c

\* a lower() that leaves the text as it is
LowerNone(s) == s

\* str.lower()
Lower(s) == [i \in 1..Len(s) |-> LowerC(s[i])]

\* Python's  sub in s  on strings
Contains(sub, s) ==
  \E i \in 0..(Len(s) - Len(sub)) : SubSeq(s, i + 1, i + Len(sub)) = sub

IsSpace(c) == c = " "

RECURSIVE LStrip(_)
LStrip(s) == IF s # <<>> /\ IsSpace(Head(s)) THEN LStrip(Tail(s)) ELSE s

RECURSIVE RStrip(_)
RStrip(s) ==
  IF s # <<>> /\ IsSpace(s[Len(s)]) THEN RStrip(SubSeq(s, 1, Len(s) - 1)) ELSE s

\* a strip() that removes nothing
StripNone(s) == s

\* str.strip()
Strip(s) == RStrip(LStrip(s))

\* all sequences over S of length at most n
RECURSIVE SeqsUpTo(_, _)
SeqsUpTo(S, n) ==
  IF n = 0 THEN {<<>>}
  ELSE LET shorter == SeqsUpTo(S, n - 1)
       IN  shorter \cup {Append(s, x) : s \in {t \in shorter : Len(t) = n - 1}, x \in S}

\* ------------------------------------------------------- request inputs
Fev      == <<"f", "e", "v">>
Blank    == <<" ">>
Fever    == <<"F", "e", "v", "e", "r">>
Ache     == <<"A", "c", "h", "e">>
Ayurveda == <<"A", "y", "u", "r", "v", "e", "d", "a">>
ayurveda == <<"a", "y", "u", "r", "v", "e", "d", "a">>
Yoga     == <<"Y", "o", "g", "a">>

Queries == {Fev, Blank}

\* SearchType
Sources == {"namaste", "icd11", "both"}

\* Optional[str]: some = FALSE is None
NoFilter == [some |-> FALSE, v |-> <<>>]
Filter(s) == [some |-> TRUE, v |-> s]
Filters == {NoFilter, Filter(ayurveda)}

\* ------------------------------------------------------- local catalog
CatItems ==
  { [id |-> "N1", term |-> Fever, system |-> Ayurveda],
    [id |-> "N2", term |-> Ache,  system |-> Yoga] }

Catalogs == SeqsUpTo(CatItems, MaxCat)

\* the larger inputs on which search_namaste alone is run
FevUpper == <<"F", "E", "V">>
Ch       == <<"c", "h">>

LocalItems ==
  CatItems \cup { [id |-> "N3", term |-> FevUpper, system |-> Yoga] }

LocalCatalogs == SeqsUpTo(LocalItems, MaxLocalCat)

LocalQueries == {Fev, Ch, Blank, <<>>}

LocalFilters == {NoFilter, Filter(ayurveda), Filter(Yoga), Filter(<<>>)}

\* open()/json.load() outcome of the data file
FileStates == {"ok", "missing", "unreadable"}

\* NAMASTETerm built from a catalog item
NamasteTerm(item) ==
  [id |-> item.id, term |-> item.term, ayush_system |-> item.system]

\* a scan loop that never looks at the filter
RECURSIVE ScanIgnoreFilter(_, _, _)
ScanIgnoreFilter(cat, query, flt) ==
  IF cat = <<>> THEN <<>>
  ELSE (IF Contains(Lower(query), Lower(Head(cat).term))
          THEN <<NamasteTerm(Head(cat))>> ELSE <<>>)
       \o ScanIgnoreFilter(Tail(cat), query, flt)

\* the scan loop of search_namaste
RECURSIVE Scan(_, _, _)
Scan(cat, query, flt) ==
  IF cat = <<>> THEN <<>>
  ELSE LET item == Head(cat)
           hit  == /\ Contains(Lower(query), Lower(item.term))
                   /\ (~flt.some \/ flt.v = <<>> \/ Lower(item.system) = Lower(flt.v))
       IN  (IF hit THEN <<NamasteTerm(item)>> ELSE <<>>) \o Scan(Tail(cat), query, flt)

\* a mock record that does not echo the query
FallbackFixed(query) == [id |-> "NAM001", term |-> Fever, ayush_system |-> Ayurveda]

\* the mock record returned when the data file is missing
Fallback(query) == [id |-> "NAM001", term |-> query, ayush_system |-> Ayurveda]

Return(val) == [kind |-> "return", val |-> val, code |-> 0]
Raise(code) == [kind |-> "raise", val |-> <<>>, code |-> code]

\* search_namaste: the HTTPException(404) raised inside the try block is
\* caught by  except Exception  and leaves as HTTPException(500)
search_namaste(fstate, cat, query, flt) ==
  IF fstate = "missing" THEN Return(<<Fallback(query)>>)
  ELSE IF fstate = "unreadable" THEN Raise(500)
  ELSE LET res == Scan(cat, query, flt)
       IN  IF res = <<>> THEN Raise(500) ELSE Return(res)

\* ------------------------------------------------------ remote entities
\* a JSON value found under "title": absent, a string, or an object whose
\* "@value" is v ("" when the object has no "@value")
Absent   == [t |-> "absent", v |-> ""]
Str(v)   == [t |-> "str", v |-> v]
Obj(v)   == [t |-> "obj", v |-> v]

\* one element of the entity list; dict = FALSE is an element that is not a
\* JSON object, on which item.get raises AttributeError
Entity(title, name) == [dict |-> TRUE, title |-> title, name |-> name, id |-> "1"]
NotADict == [dict |-> FALSE, title |-> Absent, name |-> "", id |-> ""]

ObjTitled   == Entity(Obj("X"), "")
StrTitled   == Entity(Str("Y"), "")
NameOnly    == Entity(Absent, "N")
Untitled    == Entity(Absent, "")
ObjNoValue  == Entity(Obj(""), "N")

NormItems  == {ObjTitled, StrTitled, NameOnly, Untitled, ObjNoValue, NotADict}
ProbeItems == {StrTitled, NotADict}

\* the keys of a response body, in the order the code reads them
KeyOrder == <<"destinationEntities", "entities", "searchResults", "results">>
Keys == {KeyOrder[i] : i \in 1..Len(KeyOrder)}

NoList == [present |-> FALSE, list |-> <<>>]
List(l) == [present |-> TRUE, list |-> l]

\* the entities of l as listed under key k: the id names the key
Tag(l, k) == [i \in 1..Len(l) |-> IF l[i].dict THEN [l[i] EXCEPT !.id = k] ELSE l[i]]

\* a body in which every key is absent, empty, or holds the list l
Body(p, l) ==
  [k \in Keys |-> CASE p[k] = "absent" -> NoList
                    [] p[k] = "empty"  -> List(<<>>)
                    [] OTHER           -> List(Tag(l, k))]

EmptyBody == [k \in Keys |-> NoList]

NormBodies ==
  {Body(p, l) : p \in [Keys -> {"absent", "empty", "full"}],
                l \in SeqsUpTo(NormItems, MaxNormEnt)}

ProbeBodies ==
  {Body([k \in Keys |-> IF k = "entities" THEN "full" ELSE "absent"], l) :
     l \in SeqsUpTo(ProbeItems, MaxEnt)}

\* data.get(k, [])
Get(data, k) == IF data[k].present THEN data[k].list ELSE <<>>

\* a chain that takes the first key that is present, empty or not
EntitiesFirstPresent(data) ==
  IF data[KeyOrder[1]].present THEN data[KeyOrder[1]].list
  ELSE IF data[KeyOrder[2]].present THEN data[KeyOrder[2]].list
  ELSE IF data[KeyOrder[3]].present THEN data[KeyOrder[3]].list
  ELSE Get(data, KeyOrder[4])

\* the  or  chain: the first operand that is truthy, else the last one
Entities(data) ==
  IF Get(data, KeyOrder[1]) # <<>> THEN Get(data, KeyOrder[1])
  ELSE IF Get(data, KeyOrder[2]) # <<>> THEN Get(data, KeyOrder[2])
  ELSE IF Get(data, KeyOrder[3]) # <<>> THEN Get(data, KeyOrder[3])
  ELSE Get(data, KeyOrder[4])

\* a title extraction that falls back to name for a structured title too
ResolveTitleNameFallback(item) ==
  IF item.title.v # "" THEN item.title.v ELSE item.name

\* title extraction
ResolveTitle(item) ==
  IF item.title.t = "obj" THEN item.title.v
  ELSE IF item.title.v # "" THEN item.title.v
  ELSE item.name

ICD11Term(item) == [id |-> item.id, title |-> ResolveTitle(item)]

\* the  for item in entities  loop, appending to res; an exception leaves
\* the loop with the records appended so far still in res
RECURSIVE Normalize(_, _)
Normalize(res, ents) ==
  IF ents = <<>> THEN [res |-> res, raised |-> FALSE]
  ELSE LET item == Head(ents)
       IN  IF ~item.dict THEN [res |-> res, raised |-> TRUE]
           ELSE IF ResolveTitle(item) # ""
                THEN Normalize(Append(res, ICD11Term(item)), Tail(ents))
                ELSE Normalize(res, Tail(ents))

\* ---------------------------------------------------------------- token
\* _token_cache is None
NoToken == ""

\* what the token endpoint does with one POST
TokenResponses ==
  { [kind |-> "neterr", token |-> ""],
    [kind |-> "non200", token |-> ""],
    [kind |-> "ok",     token |-> ""],
    [kind |-> "ok",     token |-> "t1"],
    [kind |-> "ok",     token |-> "t2"] }

\* a get_token that never looks at the cache
get_token_refetch(cache, configured, resp) ==
  IF ~configured
    THEN [raised |-> TRUE, token |-> "", cache |-> cache, posted |-> FALSE]
  ELSE IF resp.kind # "ok" \/ resp.token = ""
    THEN [raised |-> TRUE, token |-> "", cache |-> cache, posted |-> TRUE]
  ELSE [raised |-> FALSE, token |-> resp.token, cache |-> resp.token, posted |-> TRUE]

\* a get_token that stores what the token endpoint sent before testing it
get_token_store_first(cache, configured, resp) ==
  IF cache # NoToken
    THEN [raised |-> FALSE, token |-> cache, cache |-> cache, posted |-> FALSE]
  ELSE IF ~configured
    THEN [raised |-> TRUE, token |-> "", cache |-> cache, posted |-> FALSE]
  ELSE IF resp.kind # "ok" \/ resp.token = ""
    THEN [raised |-> TRUE, token |-> "", cache |-> "error", posted |-> TRUE]
  ELSE [raised |-> FALSE, token |-> resp.token, cache |-> resp.token, posted |-> TRUE]

\* a get_token that returns an empty token where it should raise
get_token_silent(cache, configured, resp) ==
  IF cache # NoToken
    THEN [raised |-> FALSE, token |-> cache, cache |-> cache, posted |-> FALSE]
  ELSE IF ~configured
    THEN [raised |-> FALSE, token |-> "", cache |-> cache, posted |-> FALSE]
  ELSE IF resp.kind # "ok" \/ resp.token = ""
    THEN [raised |-> FALSE, token |-> "", cache |-> cache, posted |-> TRUE]
  ELSE [raised |-> FALSE, token |-> resp.token, cache |-> resp.token, posted |-> TRUE]

\* get_token: whether it raises, the token returned ("" when it raises),
\* the cache afterwards and whether the exchange was requested
get_token(cache, configured, resp) ==
  IF cache # NoToken
    THEN [raised |-> FALSE, token |-> cache, cache |-> cache, posted |-> FALSE]
  ELSE IF ~configured
    THEN [raised |-> TRUE, token |-> "", cache |-> cache, posted |-> FALSE]
  ELSE IF resp.kind # "ok" \/ resp.token = ""
    THEN [raised |-> TRUE, token |-> "", cache |-> cache, posted |-> TRUE]
  ELSE [raised |-> FALSE, token |-> resp.token, cache |-> resp.token, posted |-> TRUE]

\* variant: the cache is not consulted
get_token_begin_nocheck(cache, configured) ==
  IF ~configured THEN [at |-> "done", raised |-> TRUE, token |-> ""]
  ELSE [at |-> "posting", raised |-> FALSE, token |-> ""]

\* get_token up to its first await (lines 22-27): return the cached token,
\* raise for missing credentials, or go on to the exchange
get_token_begin(cache, configured) ==
  IF cache # NoToken THEN [at |-> "done", raised |-> FALSE, token |-> cache]
  ELSE IF ~configured THEN [at |-> "done", raised |-> TRUE, token |-> ""]
  ELSE [at |-> "posting", raised |-> FALSE, token |-> ""]

\* get_token after the POST has answered (lines 41-57): raise, or store the
\* token in the cache and return it
get_token_end(resp) ==
  IF resp.kind # "ok" \/ resp.token = ""
    THEN [raised |-> TRUE, token |-> "", writes |-> FALSE]
    ELSE [raised |-> FALSE, token |-> resp.token, writes |-> TRUE]

\* what one search endpoint does with one GET: a transport error, a status
\* other than 200, a 200 whose body does not parse, or a 200 with a body
ProbeResponses ==
  { [kind |-> k, data |-> EmptyBody] : k \in {"neterr", "non200", "badjson"} }
  \cup { [kind |-> "ok", data |-> b] : b \in ProbeBodies }

\* ------------------------------------------------------------ aggregator
\* the results dict built at the top of search_terms
InitialResults ==
  [namaste_results |-> <<>>, icd11_results |-> <<>>,
   total_results |-> 0, status |-> "success"]

\* the dict returned by the last-resort  except Exception
ErrorEnvelope ==
  [namaste_results |-> <<>>, icd11_results |-> <<>>,
   total_results |-> 0, status |-> "error"]

\* a guard that lets the fatal local-search error through
NamasteGuardReraise(out) ==
  [escapes |-> out.kind = "raise" /\ out.code = 500,
   val |-> IF out.kind = "return" THEN out.val ELSE <<>>]

\* the guard around the search_namaste call: a return value is stored,
\* HTTPException (404 or other) and any other exception store []
NamasteGuard(out) ==
  [escapes |-> FALSE, val |-> IF out.kind = "return" THEN out.val ELSE <<>>]

\* a handler that resets the whole results dict
OnIcdErrorResetAll(r) == [r EXCEPT !.icd11_results = <<>>, !.namaste_results = <<>>]

\* the  except Exception  around the search_icd11 call
OnIcdError(r) == [r EXCEPT !.icd11_results = <<>>]

\* a total that forgets the remote list
TotalResultsLocalOnly(r) == Len(r.namaste_results)

\* results["total_results"]
TotalResults(r) == Len(r.namaste_results) + Len(r.icd11_results)

\* a status that is never downgraded
StatusOfKeep(total, status) == status

\* results["status"] after the  total_results == 0  test
StatusOf(total, status) == IF total = 0 THEN "no_results" ELSE status

\* a loop without the  break
StopsNever(outcome) == FALSE

\* the  break  of the probe loop: taken after a 200 response whose entities
\* were all processed
Stops(outcome) == outcome = "ok"

\* one iteration of the probe loop on response resp, with res the records
\* collected so far
ProbeStep(res, resp) ==
  CASE resp.kind = "neterr"  -> [res |-> res, outcome |-> "neterr"]
    [] resp.kind = "non200"  -> [res |-> res, outcome |-> "non200"]
    [] resp.kind = "badjson" -> [res |-> res, outcome |-> "raised"]
    [] OTHER ->
         LET n == Normalize(res, Entities(resp.data))
         IN  [res |-> n.res, outcome |-> IF n.raised THEN "raised" ELSE "ok"]

NoOutcome == [kind |-> "none", val |-> <<>>, code |-> 0]
\* history record of one get_token call: the cache it found, the answer of
\* the token endpoint ("none" when no exchange was requested) and its result
NoTokenOut ==
  [called |-> FALSE, cached |-> FALSE, resp |-> "none", respToken |-> "",
   raised |-> FALSE, token |-> ""]

VARIABLES
  pc,            \* where the request handler stands
  q,             \* search_terms parameter q
  source,        \* search_terms parameter source
  ayush_system,  \* search_terms parameter ayush_system
  results,       \* the results dict of search_terms; the envelope once done
  fileState,     \* whether the catalog file opened and parsed in this call
  catalog,       \* data["results"] as this call read it
  configured,    \* client_id and client_secret are both set
  tokenCache,    \* ICD11Service._token_cache
  idx,           \* position of the probe loop in endpoints_to_try
  icdResults,    \* the results list of search_icd11
  data,          \* body of the last 200 response
  entities,      \* entity list taken from data
  reqLog,        \* history: the search endpoints requested by this call
  origin,        \* history: for each record of icdResults, its endpoint
  localOut,      \* history: what search_namaste did
  tokenOut,      \* history: what get_token did
  called,        \* history: the services search_terms has invoked
  faults,        \* history: failures raised outside the services
  callers,       \* the get_token calls in progress on the shared service
  tokenLog       \* history: tokens returned by, and stored by, get_token

vars == <<pc, q, source, ayush_system, results, fileState, catalog, configured,
          tokenCache, idx, icdResults, data, entities, reqLog, origin,
          localOut, tokenOut, called, faults, callers, tokenLog>>

Callers == 1..MaxCallers

\* a get_token call that has not started: seen is the cache it found
NotStarted ==
  [at |-> "start", seen |-> NoToken, token |-> "", raised |-> FALSE,
   posted |-> FALSE]

NoCallers == [c \in Callers |-> NotStarted]
NoTokenLog == [returned |-> {}, written |-> {}]

race == <<callers, tokenLog>>
file == <<fileState, catalog>>
request == <<q, source, ayush_system>>
remote == <<idx, icdResults, data, entities, reqLog, origin>>

Init ==
  /\ pc = "idle"
  /\ q = Blank /\ source = "both" /\ ayush_system = NoFilter
  /\ results = InitialResults
  /\ fileState = "ok" /\ catalog = <<>>
  /\ configured \in BOOLEAN
  /\ tokenCache = NoToken
  /\ idx = 0 /\ icdResults = <<>> /\ data = EmptyBody /\ entities = <<>>
  /\ reqLog = <<>> /\ origin = <<>>
  /\ localOut = NoOutcome /\ tokenOut = NoTokenOut
  /\ called = {} /\ faults = {}
  /\ callers = NoCallers /\ tokenLog = NoTokenLog

\* search_terms is called: lines 22-32
Request(qq, src, flt) ==
  /\ pc \in {"idle", "done"}
  /\ q' = qq /\ source' = src /\ ayush_system' = flt
  /\ results' = InitialResults
  /\ idx' = 0 /\ icdResults' = <<>> /\ data' = EmptyBody /\ entities' = <<>>
  /\ reqLog' = <<>> /\ origin' = <<>>
  /\ localOut' = NoOutcome /\ tokenOut' = NoTokenOut
  /\ called' = {} /\ faults' = {}
  /\ fileState' = "ok" /\ catalog' = <<>>
  /\ pc' = "local"
  /\ UNCHANGED <<race, configured, tokenCache>>

\* the NAMASTE block: lines 36-51; search_namaste reads the catalog file
\* anew in every call
Local ==
  /\ pc = "local"
  /\ IF source \in {"namaste", "both"}
       THEN \E fs \in FileStates :
            \E cat \in (IF fs = "ok" THEN Catalogs ELSE {<<>>}) :
              LET out == search_namaste(fs, cat, q, ayush_system)
                  g   == NamasteGuard(out)
              IN  /\ fileState' = fs /\ catalog' = cat
                  /\ localOut' = out
                  /\ called' = called \cup {"namaste"}
                  /\ IF g.escapes
                       THEN results' = ErrorEnvelope /\ pc' = "done"
                       ELSE /\ results' = [results EXCEPT !.namaste_results = g.val]
                            /\ pc' = "remote"
       ELSE pc' = "remote" /\ UNCHANGED <<file, localOut, called, results>>
  /\ UNCHANGED <<race, request, configured, tokenCache, remote, tokenOut, faults>>

\* the ICD-11 block is entered: line 54, the call of line 57 and the first
\* test of search_icd11 (lines 61-62); the call itself may raise
RemoteStart ==
  /\ pc = "remote"
  /\ IF source \in {"icd11", "both"}
       THEN \E raises \in BOOLEAN :
              /\ called' = called \cup {"icd11"}
              /\ IF raises
                   THEN /\ faults' = faults \cup {"remote"}
                        /\ results' = OnIcdError(results)
                        /\ pc' = "merge"
                   ELSE /\ UNCHANGED faults
                        /\ IF q = <<>> \/ Strip(q) = <<>>
                             THEN /\ results' = [results EXCEPT !.icd11_results = <<>>]
                                  /\ pc' = "merge"
                             ELSE UNCHANGED results /\ pc' = "token"
       ELSE pc' = "merge" /\ UNCHANGED <<called, faults, results>>
  /\ UNCHANGED <<race, request, file, configured, tokenCache, remote, localOut, tokenOut>>

\* search_icd11 awaits get_token: line 65, and lines 166-168 when it raises
GetToken ==
  /\ pc = "token"
  /\ \E resp \in TokenResponses :
       LET t == get_token(tokenCache, configured, resp)
       IN  /\ tokenCache' = t.cache
           /\ tokenOut' = [called |-> TRUE, cached |-> tokenCache # NoToken,
                           resp |-> IF t.posted THEN resp.kind ELSE "none",
                           respToken |-> IF t.posted THEN resp.token ELSE "",
                           raised |-> t.raised, token |-> t.token]
           /\ IF t.raised
                THEN /\ results' = [results EXCEPT !.icd11_results = <<>>]
                     /\ pc' = "merge" /\ UNCHANGED idx
                ELSE UNCHANGED results /\ pc' = "probe" /\ idx' = 1
  /\ UNCHANGED <<race, request, file, configured, icdResults, data, entities, reqLog, origin,
                 localOut, called, faults>>

\* one iteration of  for url in endpoints_to_try : lines 92-157
Probe ==
  /\ pc = "probe" /\ idx \in 1..NumEndpoints
  /\ \E resp \in ProbeResponses :
       LET s == ProbeStep(icdResults, resp)
       IN  /\ icdResults' = s.res
           /\ origin' = origin \o [i \in 1..(Len(s.res) - Len(icdResults)) |-> idx]
           /\ reqLog' = Append(reqLog, [ep |-> idx, outcome |-> s.outcome])
           /\ IF resp.kind = "ok"
                THEN data' = resp.data /\ entities' = Entities(resp.data)
                ELSE UNCHANGED <<data, entities>>
           /\ IF Stops(s.outcome) \/ idx = NumEndpoints
                THEN pc' = "collect" /\ UNCHANGED idx
                ELSE pc' = "probe" /\ idx' = idx + 1
  /\ UNCHANGED <<race, request, file, configured, tokenCache, results, localOut, tokenOut,
                 called, faults>>

\* search_icd11 returns its list (lines 159-164) and search_terms stores it
\* (line 58)
Collect ==
  /\ pc = "collect"
  /\ results' = [results EXCEPT !.icd11_results = icdResults]
  /\ pc' = "merge"
  /\ UNCHANGED <<race, request, file, configured, tokenCache, remote, localOut, tokenOut,
                 called, faults>>

\* totals and status (lines 64-78), or the last-resort guard (lines 80-92)
\* when something in between raises
Merge ==
  /\ pc = "merge"
  /\ \E raises \in BOOLEAN :
       IF raises
         THEN faults' = faults \cup {"merge"} /\ results' = ErrorEnvelope
         ELSE /\ UNCHANGED faults
              /\ LET total == TotalResults(results)
                 IN  results' = [results EXCEPT
                                   !.total_results = total,
                                   !.status = StatusOf(total, results.status)]
  /\ pc' = "done"
  /\ UNCHANGED <<race, request, file, configured, tokenCache, remote, localOut, tokenOut, called>>

Next ==
  \/ \E qq \in Queries, src \in Sources, flt \in Filters : Request(qq, src, flt)
  \/ Local
  \/ RemoteStart
  \/ GetToken
  \/ Probe
  \/ Collect
  \/ Merge

Spec == Init /\ [][Next]_vars

\* ------------------------------------------------- local search alone
\* one search_namaste call on a catalog file, a query and a filter drawn
\* from the larger sets
InitLocal ==
  /\ pc = "lookup"
  /\ q \in LocalQueries /\ ayush_system \in LocalFilters
  /\ source = "namaste"
  /\ fileState \in FileStates
  /\ catalog \in (IF fileState = "ok" THEN LocalCatalogs ELSE {<<>>})
  /\ results = InitialResults
  /\ configured = TRUE /\ tokenCache = NoToken
  /\ idx = 0 /\ icdResults = <<>> /\ data = EmptyBody /\ entities = <<>>
  /\ reqLog = <<>> /\ origin = <<>>
  /\ localOut = NoOutcome /\ tokenOut = NoTokenOut
  /\ called = {} /\ faults = {}
  /\ callers = NoCallers /\ tokenLog = NoTokenLog

\* search_namaste, lines 14-67
Lookup ==
  /\ pc = "lookup"
  /\ localOut' = search_namaste(fileState, catalog, q, ayush_system)
  /\ called' = {"namaste"}
  /\ pc' = "found"
  /\ UNCHANGED <<race, request, file, configured, tokenCache, results, remote,
                 tokenOut, faults>>

NextLocal == Lookup

SpecLocal == InitLocal /\ [][NextLocal]_vars

\* ------------------------------------------- normalization of one response
\* one 200 response, drawn from the larger set of bodies, is normalized by a
\* fresh search_icd11 call
InitNorm ==
  /\ pc = "norm"
  /\ data \in NormBodies
  /\ q = Fev /\ source = "icd11" /\ ayush_system = NoFilter
  /\ results = InitialResults
  /\ fileState = "ok" /\ catalog = <<>> /\ configured = TRUE
  /\ tokenCache = "t1"
  /\ idx = 1 /\ icdResults = <<>> /\ entities = <<>>
  /\ reqLog = <<>> /\ origin = <<>>
  /\ localOut = NoOutcome /\ tokenOut = NoTokenOut
  /\ called = {"icd11"} /\ faults = {}
  /\ callers = NoCallers /\ tokenLog = NoTokenLog

\* lines 97-147 on the response body data
NormalizeResponse ==
  /\ pc = "norm"
  /\ LET s == ProbeStep(icdResults, [kind |-> "ok", data |-> data])
     IN  /\ icdResults' = s.res
         /\ origin' = [i \in 1..Len(s.res) |-> idx]
         /\ reqLog' = <<[ep |-> idx, outcome |-> s.outcome]>>
  /\ entities' = Entities(data)
  /\ pc' = "normed"
  /\ UNCHANGED <<race, request, file, configured, tokenCache, results, idx, data, localOut,
                 tokenOut, called, faults>>

NextNorm == NormalizeResponse

SpecNorm == InitNorm /\ [][NextNorm]_vars

\* -------------------------------------- get_token under concurrent calls
\* several searches run on the one event loop and share the ICD11Service of
\* the module-level mapping_service; a get_token call gives up control only
\* at its await of the POST
InitRace ==
  /\ pc = "race"
  /\ q = Fev /\ source = "icd11" /\ ayush_system = NoFilter
  /\ results = InitialResults
  /\ fileState = "ok" /\ catalog = <<>>
  /\ configured \in BOOLEAN
  /\ tokenCache = NoToken
  /\ idx = 0 /\ icdResults = <<>> /\ data = EmptyBody /\ entities = <<>>
  /\ reqLog = <<>> /\ origin = <<>>
  /\ localOut = NoOutcome /\ tokenOut = NoTokenOut
  /\ called = {"icd11"} /\ faults = {}
  /\ callers = NoCallers /\ tokenLog = NoTokenLog

\* caller c enters get_token: lines 20-39, up to the await of the POST
TokenBegin(c) ==
  /\ pc = "race" /\ callers[c].at = "start"
  /\ LET b == get_token_begin(tokenCache, configured)
     IN  /\ callers' = [callers EXCEPT ![c] =
                          [at |-> b.at, seen |-> tokenCache, token |-> b.token,
                           raised |-> b.raised, posted |-> b.at = "posting"]]
         /\ tokenLog' = IF b.at = "done" /\ ~b.raised
                          THEN [tokenLog EXCEPT !.returned = @ \cup {b.token}]
                          ELSE tokenLog
  /\ UNCHANGED <<request, file, configured, tokenCache, results, remote,
                 localOut, tokenOut, called, faults, pc>>

\* the POST of caller c answers: lines 41-57
TokenEnd(c) ==
  /\ pc = "race" /\ callers[c].at = "posting"
  /\ \E resp \in TokenResponses :
       LET e == get_token_end(resp)
       IN  /\ callers' = [callers EXCEPT ![c].at = "done",
                                          ![c].token = e.token,
                                          ![c].raised = e.raised]
           /\ tokenCache' = IF e.writes THEN e.token ELSE tokenCache
           /\ tokenLog' = IF e.writes
                            THEN [returned |-> tokenLog.returned \cup {e.token},
                                  written |-> tokenLog.written \cup {e.token}]
                            ELSE tokenLog
  /\ UNCHANGED <<request, file, configured, results, remote, localOut,
                 tokenOut, called, faults, pc>>

\* the search of caller c is over and a new search calls get_token
TokenAgain(c) ==
  /\ pc = "race" /\ callers[c].at = "done"
  /\ callers' = [callers EXCEPT ![c] = NotStarted]
  /\ UNCHANGED <<request, file, configured, tokenCache, results, remote,
                 localOut, tokenOut, called, faults, pc, tokenLog>>

NextRace ==
  \/ \E c \in Callers : TokenBegin(c)
  \/ \E c \in Callers : TokenEnd(c)
  \/ \E c \in Callers : TokenAgain(c)

SpecRace == InitRace /\ [][NextRace]_vars

\* ------------------------------------------------------------ properties
\* the handler has returned; results is the envelope
Returned == pc = "done"

\* the last-resort guard produced the envelope
OrchestrationError == "merge" \in faults

\* C1: every returned envelope, the last-resort error envelope included, has
\* total_results equal to the sum of the lengths of its two result lists
C1_TotalIsSum ==
  Returned =>
    results.total_results = Len(results.namaste_results) + Len(results.icd11_results)

C1_Witness ==
  /\ Returned /\ source = "both"
  /\ results.namaste_results # <<>> /\ results.icd11_results # <<>>
  /\ results.total_results = Len(results.namaste_results) + Len(results.icd11_results)

\* C2: in a returned envelope status is "no_results" exactly when
\* total_results is 0 and the last-resort guard did not fire, "success"
\* exactly when total_results > 0, and "error" exactly when the guard fired
C2_StatusClassifies ==
  Returned =>
    /\ results.status = "no_results" <=>
         (results.total_results = 0 /\ ~OrchestrationError)
    /\ results.status = "success" <=> results.total_results > 0
    /\ results.status = "error" <=> OrchestrationError

C2_Witness ==
  /\ Returned /\ results.status = "no_results"
  /\ called = {"namaste", "icd11"} /\ ~OrchestrationError

\* C3: with scope both, when the ICD-11 call raises the envelope still holds
\* exactly what search_namaste returned; and when search_namaste raises the
\* ICD-11 search is still invoked and the list it returned is in the envelope
C3_SourcesIsolated ==
  (Returned /\ source = "both" /\ ~OrchestrationError) =>
    /\ ("remote" \in faults /\ localOut.kind = "return") =>
         results.namaste_results = localOut.val
    /\ localOut.kind = "raise" =>
         /\ "icd11" \in called
         /\ "remote" \notin faults => results.icd11_results = icdResults

C3_Witness ==
  /\ Returned /\ source = "both" /\ ~OrchestrationError
  /\ "remote" \in faults /\ localOut.kind = "return"
  /\ Len(results.namaste_results) = 1 /\ results.status = "success"

\* the second half of C3 happens as well: the local search raised and the
\* remote records are in the envelope
C3_RemoteAfterLocalRaise ==
  /\ Returned /\ source = "both" /\ localOut.kind = "raise"
  /\ results.icd11_results # <<>>

\* every endpoint was requested and answered non-200 or a transport error
AllEndpointsFailed ==
  /\ Len(reqLog) = NumEndpoints
  /\ \A i \in 1..Len(reqLog) : reqLog[i].outcome \in {"neterr", "non200"}

\* C4: search_terms always returns one of the three envelopes; a failure of
\* one source (local not-found or fatal error, token acquisition failure, all
\* remote endpoints failing) never gives status "error", it only leaves that
\* source's list empty
C4_PerSourceFailureDegrades ==
  Returned =>
    /\ results.status \in {"success", "no_results", "error"}
    /\ results.status = "error" => OrchestrationError
    /\ ~OrchestrationError =>
         /\ localOut.kind = "raise" => results.namaste_results = <<>>
         /\ tokenOut.raised => results.icd11_results = <<>>
         /\ AllEndpointsFailed => results.icd11_results = <<>>

C4_Witness ==
  /\ Returned /\ source = "both" /\ ~OrchestrationError
  /\ localOut.kind = "raise" /\ AllEndpointsFailed
  /\ results.status = "no_results"

\* token acquisition failed: nothing was cached and either the credentials
\* are absent or the exchange did not yield a token
TokenAcquisitionFailed ==
  /\ tokenOut.called /\ ~tokenOut.cached
  /\ \/ ~configured
     \/ tokenOut.resp \in {"neterr", "non200"}
     \/ tokenOut.resp = "ok" /\ tokenOut.respToken = ""

\* C5: when token acquisition fails, search_icd11 returns the empty list
\* without raising and requests no search endpoint
C5_TokenFailureDegrades ==
  TokenAcquisitionFailed =>
    /\ reqLog = <<>> /\ icdResults = <<>>
    /\ pc \in {"merge", "done"}
    /\ "remote" \notin faults
    /\ ~OrchestrationError => results.icd11_results = <<>>

C5_Witness ==
  /\ TokenAcquisitionFailed /\ configured /\ tokenOut.resp = "non200"
  /\ Returned /\ source = "icd11" /\ results.status = "no_results"

\* the probe loop has ended
ProbingOver == pc \in {"collect", "merge", "done"} /\ reqLog # <<>>

Status200(o) == o \in {"ok", "raised"}

\* C6 as stated: endpoints are requested in list order and none is requested
\* after an endpoint has answered HTTP 200
C6_StopsAtFirst200 ==
  /\ \A i \in 1..Len(reqLog) : reqLog[i].ep = i
  /\ \A i, j \in 1..Len(reqLog) : i < j => ~Status200(reqLog[i].outcome)

\* C6 amended: endpoints are requested one at a time in list order; an
\* endpoint that answers non-200, raises a transport error, or answers 200
\* with a response whose processing raises is skipped; none is requested
\* after the first 200 response that was processed completely; the loop ends
\* only there or after the last endpoint; and when every endpoint answered
\* non-200 or a transport error the result is empty
C6_StopsAtFirstProcessed200 ==
  /\ \A i \in 1..Len(reqLog) : reqLog[i].ep = i
  /\ \A i, j \in 1..Len(reqLog) : i < j => reqLog[i].outcome # "ok"
  /\ pc = "probe" => idx = Len(reqLog) + 1
  /\ ProbingOver =>
       \/ reqLog[Len(reqLog)].outcome = "ok"
       \/ Len(reqLog) = NumEndpoints
  /\ (ProbingOver /\ AllEndpointsFailed) => icdResults = <<>>

C6_Witness ==
  /\ pc = "collect" /\ Len(reqLog) = NumEndpoints
  /\ reqLog[1].outcome = "non200" /\ reqLog[2].outcome = "neterr"
  /\ reqLog[3].outcome = "raised" /\ reqLog[4].outcome = "ok"
  /\ icdResults # <<>>

\* C7: the records of the list search_icd11 returns all come from the
\* response of one endpoint, and that endpoint answered HTTP 200
C7_NoMergeAcrossEndpoints ==
  ProbingOver =>
    \A i, j \in 1..Len(origin) :
      /\ origin[i] = origin[j]
      /\ Status200(reqLog[origin[i]].outcome)

\* the titled records of an entity list, in order
RECURSIVE Titled(_)
Titled(ents) ==
  IF ents = <<>> THEN <<>>
  ELSE (IF Head(ents).dict /\ ResolveTitle(Head(ents)) # ""
          THEN <<ICD11Term(Head(ents))>> ELSE <<>>) \o Titled(Tail(ents))

\* C8: the list returned is exactly the titled records of the entity list
\* of the response the loop stopped at, in the order of that list
C8_ExactlyTitledRecords ==
  (ProbingOver /\ reqLog[Len(reqLog)].outcome = "ok") =>
    icdResults = Titled(entities)

\* the response has been normalized and no entity made the loop raise
Normalized == pc = "normed" /\ reqLog[1].outcome = "ok"

\* the entities the loop reached before one that is not a JSON object
RECURSIVE Processed(_)
Processed(ents) ==
  IF ents = <<>> \/ ~Head(ents).dict THEN <<>>
  ELSE <<Head(ents)>> \o Processed(Tail(ents))

\* the title the priority rule of the claim gives: the "@value" of a
\* structured title, else the raw title string, else the name
RuleTitle(item) ==
  IF item.title.t = "obj" /\ item.title.v # "" THEN item.title.v
  ELSE IF item.title.t = "str" /\ item.title.v # "" THEN item.title.v
  ELSE item.name

\* the records a title rule keeps, in order, with the title it gives them
WithTitles(ents, rule(_)) ==
  LET kept == SelectSeq(ents, LAMBDA e : rule(e) # "")
  IN  [i \in 1..Len(kept) |-> [id |-> kept[i].id, title |-> rule(kept[i])]]

\* C9 as stated: a record is titled by the "@value" of a structured title,
\* else the raw title string, else the name, so a record whose title yields
\* nothing but which has a name is kept under that name
C9_TitlePriority ==
  Normalized => icdResults = WithTitles(entities, RuleTitle)

\* the title the code gives: a structured title decides alone
CodeTitle(item) ==
  CASE item.title.t = "obj" -> item.title.v
    [] item.title.t = "str" /\ item.title.v # "" -> item.title.v
    [] OTHER -> item.name

\* C9 amended: a structured title gives its "@value" and the name is not
\* consulted, so a structured title without a non-empty "@value" drops the
\* record even when it has a name; otherwise the raw title string is used if
\* non-empty, else the name
C9_TitlePriorityStructuredAlone ==
  pc = "normed" => icdResults = WithTitles(Processed(entities), CodeTitle)

C9_Witness ==
  /\ Normalized
  /\ data["entities"] = List(Tag(<<ObjTitled, NameOnly>>, "entities"))
  /\ icdResults = <<[id |-> "entities", title |-> "X"],
                    [id |-> "entities", title |-> "N"]>>

\* positions in KeyOrder of the keys that are present
PresentKeys(d) == {i \in 1..Len(KeyOrder) : d[KeyOrder[i]].present}

\* positions in KeyOrder of the keys that hold a non-empty list
FullKeys(d) == {i \in PresentKeys(d) : d[KeyOrder[i]].list # <<>>}

Least(S) == CHOOSE i \in S : \A j \in S : i <= j

\* C10 as stated: the entity list is the list of the first key that is
\* present, even when that list is empty, and then no record is returned
C10_FirstPresentKey ==
  pc = "normed" =>
    IF PresentKeys(data) = {} THEN entities = <<>>
    ELSE /\ entities = data[KeyOrder[Least(PresentKeys(data))]].list
         /\ data[KeyOrder[Least(PresentKeys(data))]].list = <<>> => icdResults = <<>>

\* C10 amended: the entity list is the list of the first key, in the order
\* destinationEntities, entities, searchResults, results, whose list is not
\* empty; a key present with an empty list is passed over like an absent
\* one; when no key holds a non-empty list there are no records
C10_FirstNonEmptyKey ==
  pc = "normed" =>
    IF FullKeys(data) = {} THEN entities = <<>> /\ icdResults = <<>>
    ELSE /\ entities = data[KeyOrder[Least(FullKeys(data))]].list
         /\ \A i \in 1..Len(icdResults) :
              icdResults[i].id = KeyOrder[Least(FullKeys(data))]

C10_Witness ==
  /\ Normalized
  /\ data["destinationEntities"] = List(<<>>)
  /\ data["entities"].list # <<>>
  /\ icdResults # <<>> /\ icdResults[1].id = "entities"

\* query occurs in term when case is ignored, stated position by position
MatchesCI(query, term) ==
  \E i \in 1..(Len(term) - Len(query) + 1) :
    \A k \in 1..Len(query) : LowerC(query[k]) = LowerC(term[i + k - 1])

\* s and t are equal when case is ignored
EqualCI(s, t) ==
  /\ Len(s) = Len(t)
  /\ \A k \in 1..Len(s) : LowerC(s[k]) = LowerC(t[k])

\* search_namaste has run on a catalog that loaded
Loaded == localOut.kind # "none" /\ fileState = "ok"

\* the call carries a category filter
FilterGiven == ayush_system.some /\ ayush_system.v # <<>>

\* C12: with no category filter, when the catalog loads and some record
\* matches, search_namaste returns exactly the catalog records whose term
\* contains the query case-insensitively, in catalog order
C12_ExactMatchesInOrder ==
  LET hits == SelectSeq(catalog, LAMBDA it : MatchesCI(q, it.term))
  IN  (Loaded /\ ~FilterGiven /\ hits # <<>>) =>
        /\ localOut.kind = "return"
        /\ localOut.val = [i \in 1..Len(hits) |-> NamasteTerm(hits[i])]

C12_Witness ==
  /\ Loaded /\ ~ayush_system.some /\ q = Fev
  /\ Len(catalog) = 2 /\ catalog[1].term = FevUpper /\ catalog[2].term = Fever
  /\ localOut.kind = "return"
  /\ Len(localOut.val) = 2
  /\ localOut.val[1].term = FevUpper /\ localOut.val[2].term = Fever

\* the record built from catalog item it is in the list search_namaste returned
IsReturned(it) ==
  /\ localOut.kind = "return"
  /\ \E j \in 1..Len(localOut.val) : localOut.val[j] = NamasteTerm(it)

\* C13: when a category filter is given, a catalog record whose term matches
\* the query is returned if and only if its system equals the filter
\* case-insensitively
C13_FilterIsCaseInsensitiveEquality ==
  (Loaded /\ FilterGiven) =>
    \A i \in 1..Len(catalog) :
      MatchesCI(q, catalog[i].term) =>
        (IsReturned(catalog[i]) <=> EqualCI(catalog[i].system, ayush_system.v))

C13_Witness ==
  /\ Loaded /\ q = Fev /\ ayush_system = Filter(ayurveda)
  /\ Len(catalog) = 2
  /\ catalog[1].system = Yoga /\ catalog[1].term = FevUpper
  /\ catalog[2].system = Ayurveda /\ catalog[2].term = Fever
  /\ localOut.kind = "return"
  /\ localOut.val = <<NamasteTerm(catalog[2])>>

\* search_namaste has run on a catalog file that could not be loaded
Unreachable == localOut.kind # "none" /\ fileState \in {"missing", "unreadable"}

\* exactly one record is returned and its term is the query
OneFallbackRecord ==
  /\ localOut.kind = "return"
  /\ Len(localOut.val) = 1
  /\ localOut.val[1].term = q

\* C14 as stated: when the catalog file is missing or is present but
\* unreadable, search_namaste returns exactly one record whose term is the
\* query
C14_FallbackWhenUnreachable ==
  Unreachable => OneFallbackRecord

\* C14 amended: when the catalog file is missing, search_namaste returns
\* exactly one fallback record whose term is the query; when the file is
\* present but cannot be read or parsed it raises the fatal local-search
\* error (HTTP 500) and returns no record
C14_FallbackOnlyWhenMissing ==
  /\ (localOut.kind # "none" /\ fileState = "missing") => OneFallbackRecord
  /\ (localOut.kind # "none" /\ fileState = "unreadable") =>
       (localOut.kind = "raise" /\ localOut.code = 500 /\ localOut.val = <<>>)

C14_Witness ==
  /\ localOut.kind # "none" /\ fileState = "missing" /\ q = Ch
  /\ localOut.kind = "return" /\ Len(localOut.val) = 1
  /\ localOut.val[1].term = Ch

\* no record of the catalog passes the term test and the filter test
NoMatch ==
  \A i \in 1..Len(catalog) :
    ~ /\ MatchesCI(q, catalog[i].term)
      /\ (FilterGiven => EqualCI(catalog[i].system, ayush_system.v))

\* C15: when the catalog loads and no record matches, search_namaste raises
\* the not-found error (HTTP 404), which differs from the fatal error (HTTP
\* 500), and search_terms turns it into an empty namaste_results
C15_NotFoundIsDistinguishable ==
  (Loaded /\ NoMatch) =>
    /\ localOut.kind = "raise" /\ localOut.code = 404
    /\ (Returned /\ ~OrchestrationError) => results.namaste_results = <<>>

\* C19: every record search_namaste returns, the fallback record included,
\* has a term that contains the query case-insensitively and, when a
\* category filter is given, an ayush_system equal to that filter
\* case-insensitively
C19_ReturnedRecordsPassTheTests ==
  localOut.kind = "return" =>
    \A j \in 1..Len(localOut.val) :
      /\ MatchesCI(q, localOut.val[j].term)
      /\ FilterGiven => EqualCI(localOut.val[j].ayush_system, ayush_system.v)

\* C11: once the cache holds a token it keeps that token, and a get_token
\* call that finds it returns it without requesting the exchange, whatever
\* the token endpoint would answer
C11_TokenMemoized ==
  [][ /\ tokenCache # NoToken => tokenCache' = tokenCache
      /\ (pc = "token" /\ tokenCache # NoToken) =>
           /\ tokenOut'.called /\ ~tokenOut'.raised
           /\ tokenOut'.token = tokenCache
           /\ tokenOut'.resp = "none"
           /\ pc' = "probe" ]_vars

C11_Witness ==
  /\ pc = "probe" /\ tokenOut.called /\ tokenOut.cached
  /\ tokenOut.token = "t1" /\ tokenCache = "t1" /\ tokenOut.resp = "none"

\* the query is empty once surrounding blanks are removed
AllSpaces(s) == \A i \in 1..Len(s) : s[i] = " "

\* C16: for a query that is empty after trimming, search_icd11 returns the
\* empty list at once: no token exchange, no search endpoint requested, the
\* token cache left as it was
C16_BlankQueryNoNetwork ==
  /\ []( ("icd11" \in called /\ AllSpaces(q) /\ "remote" \notin faults) =>
           /\ pc \in {"merge", "done"}
           /\ ~tokenOut.called /\ reqLog = <<>> /\ icdResults = <<>>
           /\ ~OrchestrationError => results.icd11_results = <<>> )
  /\ [][ (pc = "remote" /\ source \in {"icd11", "both"} /\ AllSpaces(q)
          /\ faults' = faults) =>
           /\ pc' = "merge"
           /\ tokenCache' = tokenCache
           /\ tokenOut' = NoTokenOut /\ reqLog' = <<>>
           /\ results'.icd11_results = <<>> ]_vars

C16_Witness ==
  /\ Returned /\ source = "icd11" /\ q = Blank /\ "remote" \notin faults
  /\ ~tokenOut.called /\ reqLog = <<>> /\ tokenCache = "t2"
  /\ results.status = "no_results"

\* the non-empty access_token values a 200 response of the token endpoint
\* can carry
OkTokens == {r.token : r \in {x \in TokenResponses : x.kind = "ok"}} \ {""}

\* C18: a failed get_token call leaves the cache unset; the cache holds
\* nothing but a non-empty access_token of a 200 response; a call that finds
\* the cache unset goes through the acquisition again, requesting the
\* exchange once when the credentials are set
C18_FailureLeavesCacheUnset ==
  /\ TokenAcquisitionFailed => (tokenOut.raised /\ tokenCache = NoToken)
  /\ tokenCache \in {NoToken} \cup OkTokens
  /\ (tokenOut.called /\ ~tokenOut.cached /\ ~tokenOut.raised) =>
       /\ tokenOut.resp = "ok"
       /\ tokenCache = tokenOut.respToken /\ tokenOut.token = tokenCache
  /\ (tokenOut.called /\ ~tokenOut.cached) =>
       IF configured THEN tokenOut.resp # "none"
       ELSE tokenOut.raised /\ tokenOut.resp = "none"

C18_Witness ==
  /\ TokenAcquisitionFailed /\ configured
  /\ tokenOut.resp = "ok" /\ tokenOut.respToken = ""
  /\ tokenCache = NoToken /\ Returned

\* ---- C17: memoization under concurrent first access
\* C17 as stated: once a get_token call has returned a token, every call that
\* returns afterwards returns that same token, and the cached value never
\* changes once it is set: all tokens ever returned or stored are one token.
C17_OneTokenForever ==
  Cardinality(tokenLog.returned \cup tokenLog.written) <= 1

Finished(c) == callers[c].at = "done"

\* C17: a get_token call that starts when the cache holds a token returns that
\* token without an exchange; a call that starts on an empty cache and returns
\* has done its own exchange and returns the token it stored, so calls racing
\* on first access may return different tokens; the cache, once set, is never
\* emptied and holds a token that some exchange stored.
C17_MemoizedAfterSetLastWriterWins ==
  /\ \A c \in Callers :
       Finished(c) /\ callers[c].seen # NoToken
         => /\ ~callers[c].raised
            /\ ~callers[c].posted
            /\ callers[c].token = callers[c].seen
  /\ \A c \in Callers :
       Finished(c) /\ callers[c].seen = NoToken /\ ~callers[c].raised
         => /\ callers[c].posted
            /\ callers[c].token \in tokenLog.written
  /\ tokenLog.returned \subseteq tokenLog.written
  /\ (tokenCache = NoToken) = (tokenLog.written = {})
  /\ tokenCache # NoToken => tokenCache \in tokenLog.written

\* two calls raced on the empty cache, each returned its own token, the later
\* one is cached, and a third call that started afterwards returned the cached one
C17_Witness ==
  \E a, b, c \in Callers :
    /\ Finished(a) /\ Finished(b) /\ Finished(c)
    /\ callers[a].seen = NoToken /\ callers[b].seen = NoToken
    /\ callers[a].token = "t1" /\ callers[b].token = "t2"
    /\ tokenCache = "t2"
    /\ callers[c].seen = "t2" /\ callers[c].token = "t2"

====
